---- MODULE Spec2Model ----
(***************************************************************************)
(* WeChatPro: the AutomationWorker send loop (wechat_pro.py, run and its   *)
(* helpers), the UI-thread calls that reach into a running worker (stop,   *)
(* update_runtime_*, set_clipboard_files) and the UI handler _start.       *)
(*                                                                         *)
(* SemanticEngine.humanize and ImageStealthEngine are also run on their    *)
(* own (SpecHumanize, SpecStealth).                                        *)
(*                                                                         *)
(* Text is a sequence of characters, a file list a sequence of paths,      *)
(* durations and the clock are in hundredths of a second (0.05 s = 5).     *)
(***************************************************************************)
EXTENDS Integers, Sequences, FiniteSets, TLC

VARIABLES
    config,           \* TaskConfig of the worker (global_msg, global_files, count_per_person, interval are mutated live)
    _is_running,      \* AutomationWorker._is_running
    clipboard_event,  \* AutomationWorker.clipboard_event (threading.Event)
    pc,               \* position of the worker thread inside run
    idx,              \* index of the for loop over config.target_list (1-based)
    loc,              \* locals of run
    sleep,            \* the _smart_sleep in progress: its actual duration and where it returns to
    scope,            \* ClipboardScope: original_data and how the with block is being left
    clipboard,        \* the system clipboard
    clipq,            \* sig_set_clipboard_files emissions queued for the UI thread
    now,              \* time.time()
    human,            \* msgs_since_break, next_break_threshold
    img_stealth,      \* ImageStealthEngine: current_batch_files, batches made, the files on disk
    cool,             \* polls left in the cooldown loop
    sig,              \* signals emitted by run: the last one and how many sig_finished / sig_error
    hist,             \* history: per-target driver calls, what happened after stop(), hand-off bookkeeping
    ui                \* WeChatProUI: widgets, self.worker and the worker thread it owns

vars == <<config, _is_running, clipboard_event, pc, idx, loc, sleep, scope, clipboard,
          clipq, now, human, img_stealth, cool, sig, hist, ui>>

workerVars == <<config, _is_running, clipboard_event, pc, idx, loc, sleep, scope, clipboard,
                clipq, now, human, img_stealth, cool, sig, hist>>

-----------------------------------------------------------------------------
\* Bounds of the model.

MaxTargets == 2
MaxCount == 2
MaxDelay == 1
MaxUpdates == 1
MaxPending == 1
MaxStarts == 2
MaxEdits == 1
MaxThreshold == 6
MaxBatches == 3
StartClock == 1

-----------------------------------------------------------------------------
\* Program constants.

MinSleep == 5
ShortPause == 5
GroupPause == 50
ErrorPause == 100
CooldownPolls == 10
DeepThreshold == 5
BreakThresholdMin == 15
BreakThresholdMax == 30
Second == 100
FastPoll == 10
SlowPoll == 50
SlowPollFrom == 200

CurrentWindow == <<"cur">>
invisible_chars == {"u200b", "u200c", "u200d", "u2060"}
video_exts == {".mp4", ".mov", ".avi", ".mkv", ".wmv"}

-----------------------------------------------------------------------------
\* Values.

Min(a, b) == IF a < b THEN a ELSE b
Abs(a) == IF a < 0 THEN 0 - a ELSE a

UserFile(name, ext) == [dir |-> "user", name |-> name, ext |-> ext, gen |-> 0]
Picture == UserFile("a", ".png")
Video == UserFile("v", ".mp4")
Animation == UserFile("n", ".gif")

\* The user's files on disk.
UserFiles == { Picture, Video, Animation }

Target(name, custom_msg, custom_files) ==
    [name |-> name, custom_msg |-> custom_msg, custom_files |-> custom_files]

\* Three kinds of target: the current window with the global content, a named contact
\* with a message of its own, a line without a name with a file of its own.
Kind(k) ==
    CASE k = 0 -> Target(CurrentWindow, <<>>, <<>>)
      [] k = 1 -> Target(<<"b">>, <<"c">>, <<>>)
      [] OTHER -> Target(<<>>, <<>>, <<Video>>)

\* The target lists: up to MaxTargets targets, the kinds in rotation from any first kind.
TargetLists == { [i \in 1..n |-> Kind((k + i) % 3)] : n \in 1..MaxTargets, k \in 0..2 }

\* The global content at the start: a message with a picture, or nothing.
Contents == { [msg |-> <<"g">>, files |-> <<Picture>>], [msg |-> <<>>, files |-> <<>>] }
NewMessages == { <<"h">> }
NewFileLists == { <<>> }
Counts == 1..MaxCount
Intervals == { MinSleep, GroupPause }
PlainMode == [stealth |-> FALSE, human |-> FALSE, auto_minimize |-> FALSE]
StealthMode == [stealth |-> TRUE, human |-> FALSE, auto_minimize |-> FALSE]
HumanMode == [stealth |-> FALSE, human |-> TRUE, auto_minimize |-> TRUE]

-----------------------------------------------------------------------------
\* SemanticEngine.humanize: the set of strings random.choices can produce.

NoiseStrings(lo, hi) == UNION { [1..k -> invisible_chars] : k \in lo..hi }

\* A variant that wraps a long run's text on one side only.
humanize_PrefixOnly(base_content, count_threshold, current_idx, use_stealth) ==
    IF ~use_stealth \/ base_content = <<>> THEN { base_content }
    ELSE IF count_threshold <= 1 THEN { base_content }
    ELSE IF count_threshold < DeepThreshold
         THEN { base_content \o noise : noise \in NoiseStrings(1, 2) }
         ELSE { prefix \o base_content : prefix \in NoiseStrings(1, 3) }
humanize(base_content, count_threshold, current_idx, use_stealth) ==
    IF ~use_stealth \/ base_content = <<>> THEN { base_content }
    ELSE IF count_threshold <= 1 THEN { base_content }
    ELSE IF count_threshold < DeepThreshold
         THEN { base_content \o noise : noise \in NoiseStrings(1, 2) }
         ELSE { prefix \o base_content \o suffix :
                    prefix \in NoiseStrings(1, 3), suffix \in NoiseStrings(1, 3) }

-----------------------------------------------------------------------------
\* ImageStealthEngine.process_batch: batch number n, every non-video path is
\* copied to a fresh file of the temp directory, or kept when the copy fails.

TempCopy(path, n, i) == [dir |-> "temp", name |-> path.name, ext |-> path.ext, gen |-> (n * 10) + i]

process_batch(file_paths, n) ==
    { new_paths \in [1..Len(file_paths) -> { file_paths[i] : i \in 1..Len(file_paths) }
                                             \cup { TempCopy(file_paths[i], n, i) : i \in 1..Len(file_paths) }] :
        \A i \in 1..Len(file_paths) :
            IF file_paths[i].ext \in video_exts
            THEN new_paths[i] = file_paths[i]
            ELSE new_paths[i] \in { file_paths[i], TempCopy(file_paths[i], n, i) } }

\* A batch that keeps track of every path it returns.
TempsOf_All(new_paths) == new_paths

\* What process_batch appends to current_batch_files: the paths it has created.
TempsOf(new_paths) == SelectSeq(new_paths, LAMBDA p : p.dir = "temp")

Range(paths) == { paths[i] : i \in 1..Len(paths) }

\* ImageStealthEngine.cleanup_last_batch: the files of the last batch are removed.
cleanup_last_batch(engine) ==
    [engine EXCEPT !.disk = @ \ Range(engine.current_batch_files),
                   !.current_batch_files = <<>>]

\* The engine once process_batch has returned new_paths: the last batch is cleaned up
\* (line 151), then the copies of this batch are on disk and in current_batch_files.
AfterBatch(engine, new_paths) ==
    [ current_batch_files |-> TempsOf(new_paths),
      batches |-> engine.batches + 1,
      disk |-> cleanup_last_batch(engine).disk \cup Range(TempsOf(new_paths)) ]

-----------------------------------------------------------------------------
\* AutomationWorker._smart_sleep: the durations it can decide to sleep.

SmartSleepBase(duration, current_interval) ==
    LET base_duration == IF Abs(duration - current_interval) < 1 THEN current_interval ELSE duration
    IN  IF base_duration < MinSleep THEN MinSleep ELSE base_duration

\* random.uniform(0.8, 1.3) and random.uniform(0.01, 0.05): the two ends of the range.
ActualDurations(duration, current_interval, enable_human_simulation) ==
    LET base_duration == SmartSleepBase(duration, current_interval)
    IN  IF enable_human_simulation /\ base_duration > 10
        THEN { ((base_duration * 8) \div 10) + 1, ((base_duration * 13) \div 10) + 5 }
        ELSE { base_duration }


-----------------------------------------------------------------------------
\* The state after AutomationWorker.__init__(config).

TaskConfig(target_list, global_msg, global_files, count_per_person, interval, target_timestamp, mode) ==
    [ target_list |-> target_list, global_msg |-> global_msg, global_files |-> global_files,
      count_per_person |-> count_per_person, interval |-> interval,
      start_delay |-> IF target_timestamp > 0 THEN (target_timestamp - StartClock) \div Second ELSE 0,
      target_timestamp |-> target_timestamp,
      enable_stealth_mode |-> mode.stealth, enable_human_simulation |-> mode.human,
      auto_minimize_done |-> mode.auto_minimize ]

is_custom(target) == target.custom_msg # <<>> \/ target.custom_files # <<>>

\* _start refuses a task in which no target has content.
HasContent(target_list, global_msg, global_files) ==
    \E i \in 1..Len(target_list) :
        is_custom(target_list[i]) \/ global_msg # <<>> \/ global_files # <<>>

NoLocals ==
    [ current_count_setting |-> 0, sent_count_for_this_person |-> 0, current_limit |-> 0,
      current_interval_val |-> 0, active_msg |-> <<>>, active_files |-> <<>>, ops_done |-> 0 ]

NoCalls == [ searches |-> 0, focuses |-> 0, iters |-> 0, texts |-> 0, files |-> 0 ]

Text(t) == [kind |-> "text", val |-> t]
Files(f) == [kind |-> "files", val |-> f]

NoSleep == [dur |-> 0, ret |-> "none"]
NoScope == [original_data |-> <<>>, leave |-> "none"]
NoBatch == [current_batch_files |-> <<>>, batches |-> 0, disk |-> UserFiles]
NoSignals == [last |-> "none", finished |-> 0, error |-> 0]
\* The sig_countdown emissions so far: the last value, how many were 0 (2 stands for
\* more than one), and whether a value was larger than the one before it.
NoCountdown == [last |-> -1, zeros |-> 0, rose |-> FALSE]
NoHistory ==
    [ cur |-> NoCalls, after_stop |-> NoCalls, trace |-> <<>>,
      dirty_content |-> FALSE, dirty_params |-> FALSE,
      gap |-> "none", timed_out |-> FALSE, updates |-> 0,
      countdown |-> NoCountdown, connected |-> FALSE, failed |-> 0 ]

\* self.msgs_since_break = 0, self.next_break_threshold = random.randint(15, 30): the two
\* ends of the range, and one of them where the human simulation is off and it is not read.
BreakStates(cfg) ==
    { [msgs_since_break |-> 0, next_break_threshold |-> t] :
         t \in IF cfg.enable_human_simulation
               THEN {BreakThresholdMin, BreakThresholdMax} ELSE {BreakThresholdMin} }

WorkerInit(cfg) ==
    /\ config = cfg
    /\ _is_running = TRUE
    /\ clipboard_event = FALSE
    /\ pc = "start"
    /\ idx = 0
    /\ loc = NoLocals
    /\ sleep = NoSleep
    /\ scope = NoScope
    /\ clipboard = Text(<<"o">>)
    /\ clipq = <<>>
    /\ now = StartClock
    /\ human \in BreakStates(cfg)
    /\ img_stealth = NoBatch
    /\ cool = 0
    /\ sig = NoSignals
    /\ hist = NoHistory

\* The worker _start has replaced: the state of its thread and its _is_running flag.
NoOldWorker == [thread |-> "none", _is_running |-> FALSE]

\* The window: the form (message, files, loaded list, nickname, spin boxes, check boxes),
\* the two buttons, self.worker, and how many times _start ran, created a worker, and the
\* form was edited; finished_seen is on_finished having run for the worker; old is the
\* worker that the last _start replaced.
Form(target_list, input_single_name, txt_msg, list_images, spin_count, spin_interval, spin_delay, mode) ==
    [ target_list |-> target_list, input_single_name |-> input_single_name,
      txt_msg |-> txt_msg, list_images |-> list_images,
      spin_count |-> spin_count, spin_interval |-> spin_interval, spin_delay |-> spin_delay,
      chk_stealth |-> mode.stealth, chk_human_sim |-> mode.human,
      chk_auto_minimize |-> mode.auto_minimize,
      btn_run |-> TRUE, btn_stop |-> FALSE, worker |-> "none",
      starts |-> 0, created |-> 0, edits |-> 0, finished_seen |-> FALSE,
      old |-> NoOldWorker ]

\* The window once _start has created the worker of task cfg.
UiOf(cfg) ==
    [ Form(IF cfg.target_list = <<Target(CurrentWindow, <<>>, <<>>)>> THEN <<>> ELSE cfg.target_list,
           <<>>, cfg.global_msg, cfg.global_files, cfg.count_per_person, cfg.interval,
           cfg.start_delay,
           [stealth |-> cfg.enable_stealth_mode, human |-> cfg.enable_human_simulation,
            auto_minimize |-> cfg.auto_minimize_done])
      EXCEPT !.btn_run = FALSE, !.btn_stop = TRUE, !.worker = "w", !.starts = 1, !.created = 1 ]

\* The tasks _start hands to a worker: every target list, content and count started at
\* once in the plain mode; the current window with the global content started on a
\* schedule, with the stealth mode, and with the human simulation and auto-minimize.
Tasks ==
    { TaskConfig(target_list, content.msg, content.files, count_per_person, GroupPause, 0, PlainMode) :
          target_list \in TargetLists, content \in Contents, count_per_person \in Counts }
    \cup { TaskConfig(<<Kind(0)>>, <<"g">>, <<Picture>>, 1, MinSleep, target_timestamp, PlainMode) :
          target_timestamp \in { StartClock + (Second * d) : d \in 0..MaxDelay } }
    \cup { TaskConfig(<<Kind(0)>>, <<"g">>, <<Picture>>, MaxCount, interval, 0, mode) :
          interval \in Intervals, mode \in {StealthMode, HumanMode} }

Init ==
    \E cfg \in Tasks :
        /\ HasContent(cfg.target_list, cfg.global_msg, cfg.global_files)
        /\ WorkerInit(cfg)
        /\ ui = UiOf(cfg)

-----------------------------------------------------------------------------
\* Pieces shared by the steps of run.

Emit(name) == sig' = [sig EXCEPT !.last = name]

\* _smart_sleep(duration), returning to position ret: the duration is decided on entry.
EnterSleep(duration, ret) ==
    /\ pc' = "sleep"
    /\ \E d \in ActualDurations(duration, config.interval, config.enable_human_simulation) :
          sleep' = [dur |-> d, ret |-> ret]

\* The history of the current target: how many driver calls and iterations it had, how
\* many of them were made once stop() had returned, and the calls in their order (the
\* search and the focus of the target, then the pastes and the wait of its current iteration).
OpOf(field) ==
    CASE field = "searches" -> <<"search">>
      [] field = "focuses" -> <<"focus">>
      [] field = "texts" -> <<"text">>
      [] field = "files" -> <<"file">>
      [] OTHER -> <<>>

Count(h, field) ==
    [h EXCEPT !.cur[field] = @ + 1,
              !.after_stop[field] = IF _is_running THEN @ ELSE Min(@ + 1, 2),
              !.trace = IF field = "iters"
                        THEN SelectSeq(@, LAMBDA op : op \in {"search", "focus"})
                        ELSE @ \o OpOf(field)]

\* The for loop moves to the next target.
NextTarget(h) == [h EXCEPT !.cur = NoCalls, !.trace = <<>>]

total_targets == Len(config.target_list)
target == config.target_list[idx]

-----------------------------------------------------------------------------
\* AutomationWorker._smart_sleep, lines 423-430: the polling loop.

\* end_time reached: the sleep has lasted its actual duration.
SleepElapsed ==
    /\ pc = "sleep"
    /\ pc' = sleep.ret
    /\ sleep' = NoSleep
    /\ hist' = [hist EXCEPT !.gap = IF @ = "pasted" /\ sleep.dur >= MinSleep THEN "slept" ELSE @]
    /\ UNCHANGED <<config, _is_running, clipboard_event, idx, loc, scope, clipboard, clipq, now,
                   human, img_stealth, cool, sig, ui>>

\* if not self.is_running(): return
SleepInterrupted ==
    /\ pc = "sleep"
    /\ ~_is_running
    /\ pc' = sleep.ret
    /\ sleep' = NoSleep
    /\ UNCHANGED <<config, _is_running, clipboard_event, idx, loc, scope, clipboard, clipq, now,
                   human, img_stealth, cool, sig, hist, ui>>

-----------------------------------------------------------------------------
\* AutomationWorker.run, lines 449-483: mode, countdown, connection.

RunStart ==
    /\ pc = "start"
    /\ Emit("log")
    /\ pc' = IF config.target_timestamp > 0 THEN "cd_check" ELSE "connect"
    /\ UNCHANGED <<config, _is_running, clipboard_event, idx, loc, sleep, scope, clipboard, clipq,
                   now, human, img_stealth, cool, hist, ui>>

\* sig_countdown.emit(value) in the history.
Countdown(c, value) ==
    [ last |-> value,
      zeros |-> IF value = 0 THEN Min(c.zeros + 1, 2) ELSE c.zeros,
      rose |-> c.rose \/ (c.last >= 0 /\ value > c.last) ]

\* A countdown that returns from run at once when stopped, past the finally block.
CountdownCheck_Return ==
    /\ pc = "cd_check"
    /\ IF ~_is_running
       THEN pc' = "done" /\ UNCHANGED <<sig, hist>>
       ELSE LET remaining == config.target_timestamp - now
            IN  /\ Emit("countdown")
                /\ hist' = [hist EXCEPT !.countdown =
                                Countdown(@, IF remaining <= 0 THEN 0 ELSE remaining \div Second)]
                /\ pc' = IF remaining <= 0 THEN "connect" ELSE "cd_sleep"
    /\ UNCHANGED <<config, _is_running, clipboard_event, idx, loc, sleep, scope, clipboard, clipq,
                   now, human, img_stealth, cool, ui>>

\* A countdown that ends within the last second before the target time.
CountdownCheck_Early ==
    /\ pc = "cd_check"
    /\ IF ~_is_running
       THEN pc' = "finally" /\ UNCHANGED <<sig, hist>>
       ELSE LET remaining == config.target_timestamp - now
            IN  /\ Emit("countdown")
                /\ hist' = [hist EXCEPT !.countdown =
                                Countdown(@, IF remaining < Second THEN 0 ELSE remaining \div Second)]
                /\ pc' = IF remaining < Second THEN "connect" ELSE "cd_sleep"
    /\ UNCHANGED <<config, _is_running, clipboard_event, idx, loc, sleep, scope, clipboard, clipq,
                   now, human, img_stealth, cool, ui>>

\* Lines 461-469: a stop returns through the finally block; otherwise the remaining time
\* is read and emitted, 0 when it has run out and int(remaining) seconds when it has not.
CountdownCheck ==
    /\ pc = "cd_check"
    /\ IF ~_is_running
       THEN pc' = "finally" /\ UNCHANGED <<sig, hist>>
       ELSE LET remaining == config.target_timestamp - now
            IN  /\ Emit("countdown")
                /\ hist' = [hist EXCEPT !.countdown =
                                Countdown(@, IF remaining <= 0 THEN 0 ELSE remaining \div Second)]
                /\ pc' = IF remaining <= 0 THEN "connect" ELSE "cd_sleep"
    /\ UNCHANGED <<config, _is_running, clipboard_event, idx, loc, sleep, scope, clipboard, clipq,
                   now, human, img_stealth, cool, ui>>

\* Line 470: time.sleep(0.1 if remaining < 2 else 0.5), remaining as read by the check.
CountdownSleep ==
    /\ pc = "cd_sleep"
    /\ now' = now + (IF config.target_timestamp - now < SlowPollFrom THEN FastPoll ELSE SlowPoll)
    /\ pc' = "cd_check"
    /\ UNCHANGED <<config, _is_running, clipboard_event, idx, loc, sleep, scope, clipboard, clipq,
                   human, img_stealth, cool, sig, hist, ui>>

\* driver.connect() finds the window or not; not found raises to the outer handler.
Connect ==
    /\ pc = "connect"
    /\ Emit("log")
    /\ hist' = [hist EXCEPT !.connected = TRUE]
    /\ \/ pc' = "outer_except" /\ UNCHANGED sleep
       \/ EnterSleep(GroupPause, "loop_init")
    /\ UNCHANGED <<config, _is_running, clipboard_event, idx, loc, scope, clipboard, clipq, now,
                   human, img_stealth, cool, ui>>

LoopInit ==
    /\ pc = "loop_init"
    /\ Emit("log")
    /\ idx' = 1
    /\ loc' = [loc EXCEPT !.ops_done = 0]
    /\ pc' = "tgt_check"
    /\ UNCHANGED <<config, _is_running, clipboard_event, sleep, scope, clipboard, clipq, now,
                   human, img_stealth, cool, hist, ui>>


-----------------------------------------------------------------------------
\* AutomationWorker.run, lines 486-522: one target of the for loop.

\* for idx, (name, custom_msg, custom_files) in enumerate(...): if not self.is_running(): break
TargetCheck ==
    /\ pc = "tgt_check"
    /\ pc' = IF idx > total_targets \/ ~_is_running THEN "after_loop" ELSE "tgt_read"
    /\ UNCHANGED <<config, _is_running, clipboard_event, idx, loc, sleep, scope, clipboard, clipq,
                   now, human, img_stealth, cool, sig, hist, ui>>

\* Lines 489-502: the globals are read under the mutex; a target without content is skipped.
TargetRead ==
    /\ pc = "tgt_read"
    /\ LET initial_msg == config.global_msg
           initial_files == config.global_files
           current_count_setting == config.count_per_person
       IN  IF ~is_custom(target) /\ initial_msg = <<>> /\ initial_files = <<>>
           THEN /\ loc' = [loc EXCEPT !.ops_done = @ + current_count_setting]
                /\ Emit("progress")
                /\ hist' = NextTarget(hist)
                /\ idx' = idx + 1
                /\ pc' = "tgt_check"
           ELSE /\ loc' = [loc EXCEPT !.current_count_setting = current_count_setting]
                /\ pc' = "scope_enter"
                /\ UNCHANGED <<idx, sig, hist>>
    /\ UNCHANGED <<config, _is_running, clipboard_event, sleep, scope, clipboard, clipq, now,
                   human, img_stealth, cool, ui>>

\* ClipboardScope.__enter__: pyperclip.paste() gives the text of the clipboard, "" when it holds none.
ScopeEnter ==
    /\ pc = "scope_enter"
    /\ scope' = [original_data |-> IF clipboard.kind = "text" THEN clipboard.val ELSE <<>>,
                 leave |-> "none"]
    /\ pc' = "search"
    /\ UNCHANGED <<config, _is_running, clipboard_event, idx, loc, sleep, clipboard, clipq, now,
                   human, img_stealth, cool, sig, hist, ui>>

\* A decision made on the name alone.
need_search_ByName == ~(target.name = <<>> \/ target.name = CurrentWindow)

need_search == ~(total_targets = 1 /\ (target.name = <<>> \/ target.name = CurrentWindow))

\* A search that is tried a second time when search_contact returns False.
Search_Retry ==
    /\ pc = "search"
    /\ Emit("log")
    /\ IF need_search
       THEN \/ /\ clipboard' = Text(target.name)
               /\ hist' = Count(hist, "searches")
               /\ EnterSleep(GroupPause, "focus")
               /\ UNCHANGED <<loc, scope>>
            \/ /\ clipboard' \in {clipboard, Text(target.name)}
               /\ hist' = [Count(hist, "searches") EXCEPT !.failed = @ + 1]
               /\ IF hist.cur.searches = 0
                  THEN pc' = "search" /\ UNCHANGED <<loc, scope>>
                  ELSE /\ loc' = [loc EXCEPT !.ops_done = @ + loc.current_count_setting]
                       /\ scope' = [scope EXCEPT !.leave = "continue"]
                       /\ pc' = "scope_exit"
               /\ UNCHANGED sleep
       ELSE /\ pc' = "focus"
            /\ UNCHANGED <<clipboard, hist, loc, scope, sleep>>
    /\ UNCHANGED <<config, _is_running, clipboard_event, idx, clipq, now, human, img_stealth,
                   cool, ui>>

\* Lines 506-518. search_contact puts the name on the clipboard and returns True, or
\* catches an exception (before or after the copy) and returns False.
Search ==
    /\ pc = "search"
    /\ Emit("log")
    /\ IF need_search
       THEN \/ /\ clipboard' = Text(target.name)
               /\ hist' = Count(hist, "searches")
               /\ EnterSleep(GroupPause, "focus")
               /\ UNCHANGED <<loc, scope>>
            \/ /\ clipboard' \in {clipboard, Text(target.name)}
               /\ hist' = [Count(hist, "searches") EXCEPT !.failed = @ + 1]
               /\ loc' = [loc EXCEPT !.ops_done = @ + loc.current_count_setting]
               /\ scope' = [scope EXCEPT !.leave = "continue"]
               /\ pc' = "scope_exit"
               /\ UNCHANGED sleep
       ELSE /\ pc' = "focus"
            /\ UNCHANGED <<clipboard, hist, loc, scope, sleep>>
    /\ UNCHANGED <<config, _is_running, clipboard_event, idx, clipq, now, human, img_stealth,
                   cool, ui>>

\* A loop that goes to the pastes without the click on the input box.
Focus_NoClick ==
    /\ pc = "focus"
    /\ loc' = [loc EXCEPT !.sent_count_for_this_person = 0]
    /\ pc' = "iter_check"
    /\ UNCHANGED <<config, _is_running, clipboard_event, idx, sleep, scope, clipboard, clipq, now,
                   human, img_stealth, cool, sig, hist, ui>>

\* Lines 520-522: driver.focus_input_box, sent_count_for_this_person = 0.
Focus ==
    /\ pc = "focus"
    /\ hist' = Count(hist, "focuses")
    /\ loc' = [loc EXCEPT !.sent_count_for_this_person = 0]
    /\ pc' = "iter_check"
    /\ UNCHANGED <<config, _is_running, clipboard_event, idx, sleep, scope, clipboard, clipq, now,
                   human, img_stealth, cool, sig, ui>>

-----------------------------------------------------------------------------
\* AutomationWorker.run, lines 524-578: one iteration of the while loop.

\* A while loop that does not poll the running flag.
IterCheck_NoPoll ==
    /\ pc = "iter_check"
    /\ pc' = "iter_limit"
    /\ UNCHANGED <<config, _is_running, clipboard_event, idx, loc, sleep, scope, clipboard, clipq,
                   now, human, img_stealth, cool, sig, hist, ui>>

\* while True: if not self.is_running(): break
IterCheck ==
    /\ pc = "iter_check"
    /\ IF ~_is_running
       THEN pc' = "scope_exit" /\ scope' = [scope EXCEPT !.leave = "normal"]
       ELSE pc' = "iter_limit" /\ UNCHANGED scope
    /\ UNCHANGED <<config, _is_running, clipboard_event, idx, loc, sleep, clipboard, clipq, now,
                   human, img_stealth, cool, sig, hist, ui>>

\* A loop that takes its limit from the count read once for the target (line 493).
IterLimit_CountOfTarget ==
    /\ pc = "iter_limit"
    /\ LET current_limit == loc.current_count_setting
           current_interval_val == config.interval
       IN  /\ loc' = [loc EXCEPT !.current_limit = current_limit,
                                 !.current_interval_val = current_interval_val]
           /\ IF loc.sent_count_for_this_person >= current_limit
              THEN /\ pc' = "scope_exit"
                   /\ scope' = [scope EXCEPT !.leave = "normal"]
                   /\ hist' = [hist EXCEPT !.dirty_params = FALSE]
              ELSE /\ pc' = "iter_read"
                   /\ hist' = [Count(hist, "iters") EXCEPT !.dirty_params = FALSE]
                   /\ UNCHANGED scope
    /\ UNCHANGED <<config, _is_running, clipboard_event, idx, sleep, clipboard, clipq, now,
                   human, img_stealth, cool, sig, ui>>

\* A loop that ends only once the sent count is above the limit.
IterLimit_OneMore ==
    /\ pc = "iter_limit"
    /\ LET current_limit == config.count_per_person
           current_interval_val == config.interval
       IN  /\ loc' = [loc EXCEPT !.current_limit = current_limit,
                                 !.current_interval_val = current_interval_val]
           /\ IF loc.sent_count_for_this_person > current_limit
              THEN /\ pc' = "scope_exit"
                   /\ scope' = [scope EXCEPT !.leave = "normal"]
                   /\ hist' = [hist EXCEPT !.dirty_params = FALSE]
              ELSE /\ pc' = "iter_read"
                   /\ hist' = [Count(hist, "iters") EXCEPT !.dirty_params = FALSE]
                   /\ UNCHANGED scope
    /\ UNCHANGED <<config, _is_running, clipboard_event, idx, sleep, clipboard, clipq, now,
                   human, img_stealth, cool, sig, ui>>

\* Lines 527-532: the limit and the interval are read under the mutex.
IterLimit ==
    /\ pc = "iter_limit"
    /\ LET current_limit == config.count_per_person
           current_interval_val == config.interval
       IN  /\ loc' = [loc EXCEPT !.current_limit = current_limit,
                                 !.current_interval_val = current_interval_val]
           /\ IF loc.sent_count_for_this_person >= current_limit
              THEN /\ pc' = "scope_exit"
                   /\ scope' = [scope EXCEPT !.leave = "normal"]
                   /\ hist' = [hist EXCEPT !.dirty_params = FALSE]
              ELSE /\ pc' = "iter_read"
                   /\ hist' = [Count(hist, "iters") EXCEPT !.dirty_params = FALSE]
                   /\ UNCHANGED scope
    /\ UNCHANGED <<config, _is_running, clipboard_event, idx, sleep, clipboard, clipq, now,
                   human, img_stealth, cool, sig, ui>>

\* A loop that reads the content for the first iteration of a target only.
IterRead_FirstOnly ==
    /\ pc = "iter_read"
    /\ loc' = IF loc.sent_count_for_this_person > 0
              THEN loc
              ELSE IF is_custom(target)
                   THEN [loc EXCEPT !.active_msg = target.custom_msg,
                                    !.active_files = target.custom_files]
                   ELSE [loc EXCEPT !.active_msg = config.global_msg,
                                    !.active_files = config.global_files]
    /\ hist' = [hist EXCEPT !.dirty_content = FALSE]
    /\ pc' = "text"
    /\ UNCHANGED <<config, _is_running, clipboard_event, idx, sleep, scope, clipboard, clipq, now,
                   human, img_stealth, cool, sig, ui>>

\* Lines 534-543: the content of this iteration.
IterRead ==
    /\ pc = "iter_read"
    /\ loc' = IF is_custom(target)
              THEN [loc EXCEPT !.active_msg = target.custom_msg,
                               !.active_files = target.custom_files]
              ELSE [loc EXCEPT !.active_msg = config.global_msg,
                               !.active_files = config.global_files]
    /\ hist' = [hist EXCEPT !.dirty_content = FALSE]
    /\ pc' = "text"
    /\ UNCHANGED <<config, _is_running, clipboard_event, idx, sleep, scope, clipboard, clipq, now,
                   human, img_stealth, cool, sig, ui>>

\* Lines 545-549: the message, humanized, goes to the clipboard.
TextCopy ==
    /\ pc = "text"
    /\ IF loc.active_msg # <<>>
       THEN /\ \E final_msg \in humanize(loc.active_msg, loc.current_limit,
                                         loc.sent_count_for_this_person, config.enable_stealth_mode) :
                   clipboard' = Text(final_msg)
            /\ pc' = "text_paste"
       ELSE /\ pc' = "files"
            /\ UNCHANGED clipboard
    /\ UNCHANGED <<config, _is_running, clipboard_event, idx, loc, sleep, scope, clipq, now, human,
                   img_stealth, cool, sig, hist, ui>>

BreakTimes == { 300, 800 }

\* _check_human_break, then position ret. The counters are the worker's own, so the reset
\* that follows the break's sleep is made with its start.
CheckHumanBreak(ret) ==
    IF ~config.enable_human_simulation
    THEN pc' = ret /\ UNCHANGED <<human, sleep, sig>>
    ELSE IF human.msgs_since_break + 1 >= human.next_break_threshold
         THEN /\ Emit("log")
              /\ \E t \in {BreakThresholdMin, BreakThresholdMax} :
                    human' = [msgs_since_break |-> 0, next_break_threshold |-> t]
              /\ \E break_time \in BreakTimes : EnterSleep(break_time, ret)
         ELSE /\ human' = [human EXCEPT !.msgs_since_break = @ + 1]
              /\ pc' = ret
              /\ UNCHANGED <<sleep, sig>>

\* driver.send_paste_and_enter: Ctrl+V and Enter, or SendKeys raises.
SendPasteAndEnter(field, ret) ==
    \/ /\ hist' = [Count(hist, field) EXCEPT !.gap = "pasted", !.timed_out = FALSE]
       /\ CheckHumanBreak(ret)
       /\ UNCHANGED scope
    \/ /\ hist' = [hist EXCEPT !.gap = "pasted", !.timed_out = FALSE, !.failed = @ + 1]
       /\ pc' = "scope_exit"
       /\ scope' = [scope EXCEPT !.leave = "raise"]
       /\ UNCHANGED <<human, sleep, sig>>

\* Lines 550-551.
TextPaste ==
    /\ pc = "text_paste"
    /\ SendPasteAndEnter("texts", "text_sent")
    /\ UNCHANGED <<config, _is_running, clipboard_event, idx, loc, clipboard, clipq, now,
                   img_stealth, cool, ui>>

\* Line 552: if active_files: self._smart_sleep(0.05)
TextSent ==
    /\ pc = "text_sent"
    /\ IF loc.active_files # <<>>
       THEN EnterSleep(ShortPause, "files")
       ELSE pc' = "files" /\ UNCHANGED sleep
    /\ UNCHANGED <<config, _is_running, clipboard_event, idx, loc, scope, clipboard, clipq, now,
                   human, img_stealth, cool, sig, hist, ui>>


\* Lines 554-560: the files (stealth copies when enabled) are handed to the UI thread.
FilesEmit ==
    /\ pc = "files"
    /\ IF loc.active_files # <<>>
       THEN /\ \E final_files \in IF config.enable_stealth_mode
                                   THEN process_batch(loc.active_files, img_stealth.batches + 1)
                                   ELSE { loc.active_files } :
                  /\ clipq' = Append([i \in 1..Len(clipq) |-> [clipq[i] EXCEPT !.fresh = FALSE]],
                                      [files |-> final_files, fresh |-> TRUE,
                                       worker |-> ui.created])
                  /\ img_stealth' = IF config.enable_stealth_mode
                                    THEN AfterBatch(img_stealth, final_files)
                                    ELSE img_stealth
            /\ clipboard_event' = FALSE
            /\ Emit("set_clipboard_files")
            /\ UNCHANGED hist
            /\ pc' = "clip_wait"
       ELSE /\ pc' = "iter_end"
            /\ UNCHANGED <<clipq, img_stealth, clipboard_event, sig>>
    /\ UNCHANGED <<config, _is_running, idx, loc, sleep, scope, clipboard, now, human, cool, hist, ui>>

\* Line 561: clipboard_event.wait(timeout=5.0) returns because the event is set ...
ClipWaitSet ==
    /\ pc = "clip_wait"
    /\ clipboard_event
    /\ pc' = "file_paste"
    /\ UNCHANGED <<config, _is_running, clipboard_event, idx, loc, sleep, scope, clipboard, clipq,
                   now, human, img_stealth, cool, sig, hist, ui>>

\* ... or because 5 seconds have passed without it.
ClipWaitTimeout ==
    /\ pc = "clip_wait"
    /\ ~clipboard_event
    /\ Len(clipq) <= MaxPending
    /\ hist' = [hist EXCEPT !.timed_out = TRUE]
    /\ pc' = "file_paste"
    /\ UNCHANGED <<config, _is_running, clipboard_event, idx, loc, sleep, scope, clipboard, clipq,
                   now, human, img_stealth, cool, sig, ui>>

\* Lines 563-564.
FilePaste ==
    /\ pc = "file_paste"
    /\ SendPasteAndEnter("files", "iter_end")
    /\ UNCHANGED <<config, _is_running, clipboard_event, idx, loc, clipboard, clipq, now,
                   img_stealth, cool, ui>>

\* Lines 566-578: counters, progress (always for the last item, else when 0.2 s have
\* passed since the last one), and the interval before the next iteration.
IterEnd ==
    /\ pc = "iter_end"
    /\ LET sent == loc.sent_count_for_this_person + 1
           ops_done == loc.ops_done + 1
           est_total == total_targets * loc.current_limit
           is_last_item == ops_done >= est_total \/ sent >= loc.current_limit
       IN  /\ loc' = [loc EXCEPT !.sent_count_for_this_person = sent, !.ops_done = ops_done]
           /\ \/ Emit("progress")
              \/ ~is_last_item /\ UNCHANGED sig
           /\ IF sent < loc.current_limit
              THEN /\ EnterSleep(loc.current_interval_val, "iter_check")
                   /\ hist' = [hist EXCEPT !.trace = Append(@, "wait")]
              ELSE /\ pc' = "iter_check"
                   /\ UNCHANGED <<sleep, hist>>
    /\ UNCHANGED <<config, _is_running, clipboard_event, idx, scope, clipboard, clipq, now,
                   human, img_stealth, cool, ui>>

-----------------------------------------------------------------------------
\* Leaving the with block and the target.

\* ClipboardScope.__exit__ (time.sleep(0.05), pyperclip.copy(original_data)), then line 581
\* after a loop that ended, the next target after continue, the handler after an exception.
ScopeExit ==
    /\ pc = "scope_exit"
    /\ clipboard' = Text(scope.original_data)
    /\ scope' = NoScope
    /\ loc' = [NoLocals EXCEPT !.ops_done = loc.ops_done]
    /\ IF scope.leave = "normal"
       THEN /\ EnterSleep(GroupPause, "tgt_check")
            /\ idx' = idx + 1
            /\ hist' = NextTarget(hist)
            /\ UNCHANGED sig
       ELSE IF scope.leave = "continue"
            THEN /\ pc' = "tgt_check"
                 /\ idx' = idx + 1
                 /\ hist' = NextTarget(hist)
                 /\ Emit("progress")
                 /\ UNCHANGED sleep
            ELSE /\ pc' = "inner_except"
                 /\ UNCHANGED <<idx, sleep, sig, hist>>
    /\ UNCHANGED <<config, _is_running, clipboard_event, clipq, now, human, img_stealth, cool, ui>>

\* A handler that logs the exception and raises it again, to the handler of run.
InnerExcept_Raise ==
    /\ pc = "inner_except"
    /\ Emit("log")
    /\ pc' = "outer_except"
    /\ UNCHANGED <<config, _is_running, clipboard_event, idx, loc, sleep, scope, clipboard, clipq,
                   now, human, img_stealth, cool, hist, ui>>

\* Lines 583-585: except Exception as inner_e.
InnerExcept ==
    /\ pc = "inner_except"
    /\ Emit("log")
    /\ EnterSleep(ErrorPause, "tgt_check")
    /\ idx' = idx + 1
    /\ hist' = NextTarget(hist)
    /\ UNCHANGED <<config, _is_running, clipboard_event, loc, scope, clipboard, clipq, now,
                   human, img_stealth, cool, ui>>

-----------------------------------------------------------------------------
\* AutomationWorker.run, lines 587-609: cooldown, cleanup, finally.

AfterLoop ==
    /\ pc = "after_loop"
    /\ IF config.auto_minimize_done /\ _is_running
       THEN Emit("log") /\ cool' = CooldownPolls /\ pc' = "cooldown"
       ELSE pc' = "cleanup" /\ UNCHANGED <<cool, sig>>
    /\ UNCHANGED <<config, _is_running, clipboard_event, idx, loc, sleep, scope, clipboard, clipq,
                   now, human, img_stealth, hist, ui>>

\* for _ in range(10): if not self.is_running(): break; time.sleep(0.1)
Cooldown ==
    /\ pc = "cooldown"
    /\ IF cool = 0 \/ ~_is_running
       THEN cool' = 0 /\ pc' = "minimize"
       ELSE cool' = cool - 1 /\ pc' = "cooldown"
    /\ UNCHANGED <<config, _is_running, clipboard_event, idx, loc, sleep, scope, clipboard, clipq,
                   now, human, img_stealth, sig, hist, ui>>

\* if self.is_running(): ... self.driver.minimize_async()
Minimize ==
    /\ pc = "minimize"
    /\ IF _is_running THEN Emit("log") ELSE UNCHANGED sig
    /\ pc' = "cleanup"
    /\ UNCHANGED <<config, _is_running, clipboard_event, idx, loc, sleep, scope, clipboard, clipq,
                   now, human, img_stealth, cool, hist, ui>>

\* self.img_stealth.cleanup_last_batch()
Cleanup ==
    /\ pc = "cleanup"
    /\ img_stealth' = cleanup_last_batch(img_stealth)
    /\ pc' = "finally"
    /\ UNCHANGED <<config, _is_running, clipboard_event, idx, loc, sleep, scope, clipboard, clipq,
                   now, human, cool, sig, hist, ui>>

\* except Exception as e: self.sig_error.emit(str(e))
OuterExcept ==
    /\ pc = "outer_except"
    /\ sig' = [sig EXCEPT !.last = "error", !.error = @ + 1]
    /\ pc' = "finally"
    /\ UNCHANGED <<config, _is_running, clipboard_event, idx, loc, sleep, scope, clipboard, clipq,
                   now, human, img_stealth, cool, hist, ui>>

\* finally: the disconnects, then self.sig_finished.emit()
Finally ==
    /\ pc = "finally"
    /\ sig' = [sig EXCEPT !.last = "finished", !.finished = @ + 1]
    /\ pc' = "done"
    /\ UNCHANGED <<config, _is_running, clipboard_event, idx, loc, sleep, scope, clipboard, clipq,
                   now, human, img_stealth, cool, hist, ui>>

-----------------------------------------------------------------------------
\* The UI thread reaching into the worker while run executes.

\* AutomationWorker.stop
Stop ==
    /\ _is_running
    /\ pc # "done"
    /\ _is_running' = FALSE
    /\ UNCHANGED <<config, clipboard_event, pc, idx, loc, sleep, scope, clipboard, clipq, now,
                   human, img_stealth, cool, sig, hist, ui>>

\* _on_text_changed -> update_runtime_content. The log line it emits comes from the UI
\* thread and is not one of run's signals, so sig is left alone (also in the next two).
UpdateRuntimeContent ==
    /\ _is_running
    /\ pc # "done"
    /\ hist.updates < MaxUpdates
    /\ \E new_msg \in NewMessages :
          config' = [config EXCEPT !.global_msg = new_msg]
    /\ hist' = [hist EXCEPT !.updates = @ + 1, !.dirty_content = TRUE]
    /\ UNCHANGED <<_is_running, clipboard_event, pc, idx, loc, sleep, scope, clipboard, clipq, now,
                   human, img_stealth, cool, sig, ui>>

\* _on_files_changed -> update_runtime_files
UpdateRuntimeFiles ==
    /\ _is_running
    /\ pc # "done"
    /\ hist.updates < MaxUpdates
    /\ \E new_files \in NewFileLists :
          config' = [config EXCEPT !.global_files = new_files]
    /\ hist' = [hist EXCEPT !.updates = @ + 1, !.dirty_content = TRUE]
    /\ UNCHANGED <<_is_running, clipboard_event, pc, idx, loc, sleep, scope, clipboard, clipq, now,
                   human, img_stealth, cool, sig, ui>>

\* _on_params_changed -> update_runtime_params
UpdateRuntimeParams ==
    /\ _is_running
    /\ pc # "done"
    /\ hist.updates < MaxUpdates
    /\ \E new_count \in Counts, new_interval \in Intervals :
          /\ (new_count = config.count_per_person) # (new_interval = config.interval)
          /\ config' = [config EXCEPT !.count_per_person = new_count, !.interval = new_interval]
    /\ hist' = [hist EXCEPT !.updates = @ + 1, !.dirty_params = TRUE]
    /\ UNCHANGED <<_is_running, clipboard_event, pc, idx, loc, sleep, scope, clipboard, clipq, now,
                   human, img_stealth, cool, sig, ui>>

\* WeChatProUI.set_clipboard_files, the slot of sig_set_clipboard_files: the clipboard is
\* set, or setting it raises; finally the worker's on_clipboard_set_done sets the event.
SetClipboardFiles ==
    /\ clipq # <<>>
    /\ clipboard' \in { Files(Head(clipq).files), clipboard }
    /\ clipq' = Tail(clipq)
    /\ clipboard_event' = TRUE
    /\ UNCHANGED <<config, _is_running, pc, idx, loc, sleep, scope, now, human, img_stealth,
                   cool, sig, hist, ui>>

-----------------------------------------------------------------------------

WorkerStep ==
    \/ RunStart \/ CountdownCheck \/ CountdownSleep \/ Connect \/ LoopInit
    \/ TargetCheck \/ TargetRead \/ ScopeEnter \/ Search \/ Focus
    \/ IterCheck \/ IterLimit \/ IterRead \/ TextCopy \/ TextPaste \/ TextSent
    \/ FilesEmit \/ ClipWaitSet \/ ClipWaitTimeout \/ FilePaste \/ IterEnd
    \/ ScopeExit \/ InnerExcept \/ AfterLoop \/ Cooldown \/ Minimize \/ Cleanup
    \/ OuterExcept \/ Finally
    \/ SleepElapsed \/ SleepInterrupted

UiStep ==
    \/ Stop \/ UpdateRuntimeContent \/ UpdateRuntimeFiles \/ UpdateRuntimeParams
    \/ SetClipboardFiles

Next == WorkerStep \/ UiStep

Spec == Init /\ [][Next]_vars

-----------------------------------------------------------------------------
\* WeChatProUI: the window from its construction, with the worker it creates.

\* str.strip over a string of characters
RECURSIVE lstrip(_)
lstrip(s) == IF s # <<>> /\ Head(s) = " " THEN lstrip(Tail(s)) ELSE s

RECURSIVE rstrip(_)
rstrip(s) == IF s # <<>> /\ s[Len(s)] = " " THEN rstrip(SubSeq(s, 1, Len(s) - 1)) ELSE s

strip(s) == rstrip(lstrip(s))

\* What the user can have typed and loaded: a message or a nickname that is empty, blank
\* or a word; a picture or no file; a loaded list of one target without content of its
\* own, of one line without a name, or of a target without and one with its own content.
Texts == { <<>>, <<" ">>, <<"g">> }
Names == { <<>>, <<" ">>, <<"b">> }
FileLists == { <<>>, <<Picture>> }
LoadedLists == { <<Kind(0)>>, <<Kind(2)>>, <<Kind(0), Kind(1)>> }

\* The forms at the first _start: single mode with any nickname, batch mode with the
\* nickname field empty, and one task with a start delay, human simulation and auto-minimize.
Forms ==
    { Form(<<>>, name, txt, files, 1, GroupPause, 0, PlainMode) :
         name \in Names, txt \in Texts, files \in FileLists }
    \cup { Form(list, <<>>, txt, files, 1, GroupPause, 0, PlainMode) :
         list \in LoadedLists, txt \in Texts, files \in FileLists }
    \cup { Form(<<>>, <<>>, <<"g">>, <<Picture>>, 1, MinSleep, MaxDelay, HumanMode) }

\* No worker has been created: the worker's variables hold nothing that runs.
NoTask == TaskConfig(<<>>, <<>>, <<>>, 0, 0, 0, PlainMode)

InitUI ==
    /\ ui \in Forms
    /\ config = NoTask
    /\ _is_running = FALSE
    /\ clipboard_event = FALSE
    /\ pc = "none"
    /\ idx = 0
    /\ loc = NoLocals
    /\ sleep = NoSleep
    /\ scope = NoScope
    /\ clipboard = Text(<<"o">>)
    /\ clipq = <<>>
    /\ now = StartClock
    /\ human \in BreakStates(NoTask)
    /\ img_stealth = NoBatch
    /\ cool = 0
    /\ sig = NoSignals
    /\ hist = NoHistory

\* _start, lines 1144-1150: the loaded list, or the one target of the nickname field.
StartTargets ==
    IF ui.target_list # <<>>
    THEN ui.target_list
    ELSE LET name == strip(ui.input_single_name)
         IN  << Target(IF name = <<>> THEN CurrentWindow ELSE name, <<>>, <<>>) >>

\* A batch check that finds no target without content.
missing_count_None(targets, msg, global_files) == 0

\* _start, lines 1153-1156: the targets with neither content of their own nor global content.
missing_count(targets, msg, global_files) ==
    Cardinality({ i \in 1..Len(targets) :
                     /\ targets[i].custom_msg = <<>> /\ targets[i].custom_files = <<>>
                     /\ msg = <<>> /\ global_files = <<>> })

\* _start, lines 1152-1174: the task is refused (reply is the answer to the question
\* whether to skip the targets without content).
StartRefused(reply) ==
    LET msg == strip(ui.txt_msg)
        global_files == ui.list_images
        targets == StartTargets
        missing == missing_count(targets, msg, global_files)
    IN  IF ui.target_list # <<>>
        THEN missing > 0 /\ (missing = Len(targets) \/ reply = "No")
        ELSE msg = <<>> /\ global_files = <<>>

\* _start, lines 1176-1199: the task of the form. No target_datetime is set here; an
\* interval above 1.0 s switches the human simulation on (lines 1130-1132).
StartConfig ==
    [ target_list |-> StartTargets, global_msg |-> strip(ui.txt_msg),
      global_files |-> ui.list_images,
      count_per_person |-> ui.spin_count, interval |-> ui.spin_interval,
      start_delay |-> ui.spin_delay,
      target_timestamp |-> IF ui.spin_delay > 0 THEN now + (Second * ui.spin_delay) ELSE 0,
      enable_stealth_mode |-> ui.chk_stealth,
      enable_human_simulation |-> ui.chk_human_sim \/ ui.spin_interval > 2 * GroupPause,
      auto_minimize_done |-> ui.chk_auto_minimize ]

\* The thread of self.worker is executing run.
ThreadAlive == pc \notin {"none", "done"}

\* run is inside the with block of ClipboardScope.
ScopePcs ==
    { "search", "focus", "iter_check", "iter_limit", "iter_read", "text", "text_paste",
      "text_sent", "files", "clip_wait", "file_paste", "iter_end", "scope_exit" }

InScope == pc \in ScopePcs \/ (pc = "sleep" /\ sleep.ret \in ScopePcs)

\* A replacement that leaves a worker which did not exit within the second to itself.
EndOldWorker_NoTerminate(exited) == IF exited THEN "finished" ELSE "running"

\* _start, lines 1220-1222: stop(), then wait(1000) returns True because the thread has
\* exited, or False and terminate() ends the thread.
EndOldWorker(exited) == IF exited THEN "finished" ELSE "terminated"

\* WeChatProUI._start. A refusal re-enables the run button and returns. Otherwise an old
\* worker is cut off from its slots (all but set_clipboard_files, whose queued emissions
\* stay queued), stopped and, within a second, ended: a thread that exits in that second
\* from inside the ClipboardScope has restored the clipboard, a terminated one has not.
\* The new worker is created, connected and started.
Start ==
    /\ ui.starts < MaxStarts
    /\ \E reply \in {"Yes", "No"} :
          IF StartRefused(reply)
          THEN /\ ui' = [ui EXCEPT !.btn_run = TRUE, !.btn_stop = FALSE, !.starts = @ + 1]
               /\ UNCHANGED workerVars
          ELSE \E exited \in IF ThreadAlive THEN BOOLEAN ELSE {TRUE} :
               /\ ui' = [ui EXCEPT !.btn_run = FALSE, !.btn_stop = TRUE, !.worker = "w",
                                   !.chk_human_sim = StartConfig.enable_human_simulation,
                                   !.starts = @ + 1, !.created = @ + 1,
                                   !.finished_seen = FALSE,
                                   !.old = IF ui.worker = "w"
                                           THEN [thread |-> EndOldWorker(exited),
                                                 _is_running |-> FALSE]
                                           ELSE @]
               /\ clipboard' = IF ThreadAlive /\ exited /\ InScope
                               THEN Text(scope.original_data) ELSE clipboard
               /\ config' = StartConfig
               /\ _is_running' = TRUE
               /\ clipboard_event' = FALSE
               /\ pc' = "start"
               /\ idx' = 0
               /\ loc' = NoLocals
               /\ sleep' = NoSleep
               /\ scope' = NoScope
               /\ clipq' = [i \in 1..Len(clipq) |-> [clipq[i] EXCEPT !.fresh = FALSE]]
               /\ human' \in BreakStates(StartConfig)
               /\ img_stealth' = [NoBatch EXCEPT !.disk = img_stealth.disk]
               /\ cool' = 0
               /\ sig' = NoSignals
               /\ hist' = NoHistory
               /\ UNCHANGED now

\* on_finished, the slot of the worker's sig_finished.
OnFinished ==
    /\ ui.worker = "w"
    /\ sig.finished > 0
    /\ ~ui.finished_seen
    /\ ui' = [ui EXCEPT !.btn_run = TRUE, !.btn_stop = FALSE, !.finished_seen = TRUE]
    /\ UNCHANGED workerVars

\* The message is edited: _on_text_changed hands the new text to a running worker.
EditText ==
    /\ ui.edits < MaxEdits
    /\ \E new_text \in Texts \ {ui.txt_msg} :
          /\ ui' = [ui EXCEPT !.txt_msg = new_text, !.edits = @ + 1]
          /\ IF ui.worker = "w" /\ _is_running
             THEN /\ config' = [config EXCEPT !.global_msg = strip(new_text)]
                  /\ hist' = [hist EXCEPT !.dirty_content = TRUE]
             ELSE UNCHANGED <<config, hist>>
    /\ UNCHANGED <<_is_running, clipboard_event, pc, idx, loc, sleep, scope, clipboard, clipq, now,
                   human, img_stealth, cool, sig>>

\* _load_file: the targets read from a file of names become the list.
LoadFile ==
    /\ ui.edits < MaxEdits
    /\ \E targets \in LoadedLists \ {ui.target_list} :
          ui' = [ui EXCEPT !.target_list = targets, !.edits = @ + 1]
    /\ UNCHANGED workerVars

\* _reset_mode: back to single mode; _on_files_changed hands the files to a running worker.
ResetMode ==
    /\ ui.edits < MaxEdits
    /\ ui.target_list # <<>>
    /\ ui' = [ui EXCEPT !.target_list = <<>>, !.edits = @ + 1]
    /\ IF ui.worker = "w" /\ _is_running
       THEN /\ config' = [config EXCEPT !.global_files = ui.list_images]
            /\ hist' = [hist EXCEPT !.dirty_content = TRUE]
       ELSE UNCHANGED <<config, hist>>
    /\ UNCHANGED <<_is_running, clipboard_event, pc, idx, loc, sleep, scope, clipboard, clipq, now,
                   human, img_stealth, cool, sig>>

WindowStep == Start \/ OnFinished \/ EditText \/ LoadFile \/ ResetMode \/ Stop \/ SetClipboardFiles

NextUI == WindowStep \/ WorkerStep

SpecUI == InitUI /\ [][NextUI]_vars

\* The worker thread is scheduled while run has a step to take, and the event loop of the
\* UI thread delivers a queued sig_set_clipboard_files.
LiveSpec == Init /\ [][Next]_vars /\ WF_vars(WorkerStep) /\ WF_vars(SetClipboardFiles)

-----------------------------------------------------------------------------
\* SemanticEngine on its own: one call of humanize. The arguments are the ones run passes
\* at line 546 (active_msg, current_limit, sent_count_for_this_person and
\* enable_stealth_mode) and the returned text goes to the clipboard, as at line 549.

\* Base texts without invisible characters: empty, one character, two characters.
BaseTexts == { <<>>, <<"g">>, <<"g", "h">> }

\* The count thresholds: none, one, the light range and the deep range.
Thresholds == 0..MaxThreshold

InitHumanize ==
    /\ \E mode \in {PlainMode, StealthMode} :
          config = TaskConfig(<<>>, <<>>, <<>>, 0, 0, 0, mode)
    /\ \E base_content \in BaseTexts, count_threshold \in Thresholds, current_idx \in 0..1 :
          loc = [NoLocals EXCEPT !.active_msg = base_content,
                                 !.current_limit = count_threshold,
                                 !.sent_count_for_this_person = current_idx]
    /\ pc = "humanize"
    /\ _is_running = FALSE
    /\ clipboard_event = FALSE
    /\ idx = 0
    /\ sleep = NoSleep
    /\ scope = NoScope
    /\ clipboard = Text(<<"o">>)
    /\ clipq = <<>>
    /\ now = StartClock
    /\ human \in BreakStates(NoTask)
    /\ img_stealth = NoBatch
    /\ cool = 0
    /\ sig = NoSignals
    /\ hist = NoHistory
    /\ ui = Form(<<>>, <<>>, <<>>, <<>>, 1, MinSleep, 0, PlainMode)

HumanizeCall ==
    /\ pc = "humanize"
    /\ \E final_msg \in humanize(loc.active_msg, loc.current_limit,
                                 loc.sent_count_for_this_person, config.enable_stealth_mode) :
          clipboard' = Text(final_msg)
    /\ pc' = "humanized"
    /\ UNCHANGED <<config, _is_running, clipboard_event, idx, loc, sleep, scope, clipq, now, human,
                   img_stealth, cool, sig, hist, ui>>

SpecHumanize == InitHumanize /\ [][HumanizeCall]_vars

-----------------------------------------------------------------------------
\* ImageStealthEngine on its own: any sequence of process_batch and cleanup_last_batch
\* calls. The argument of the last process_batch is kept in active_files and the list it
\* returned is what the clipboard is given, as at lines 557-560.

\* The file lists handed to process_batch: none, a picture, a video, an animation, two
\* different files, one file twice.
BatchInputs ==
    { <<>>, <<Picture>>, <<Video>>, <<Animation>>, <<Picture, Video>>, <<Video, Picture>>,
      <<Picture, Animation>>, <<Animation, Picture>>, <<Picture, Picture>> }

InitStealth ==
    /\ img_stealth = NoBatch
    /\ pc = "engine"
    /\ config = TaskConfig(<<>>, <<>>, <<>>, 0, 0, 0, StealthMode)
    /\ loc = NoLocals
    /\ _is_running = FALSE
    /\ clipboard_event = FALSE
    /\ idx = 0
    /\ sleep = NoSleep
    /\ scope = NoScope
    /\ clipboard = Text(<<"o">>)
    /\ clipq = <<>>
    /\ now = StartClock
    /\ human \in BreakStates(NoTask)
    /\ cool = 0
    /\ sig = NoSignals
    /\ hist = NoHistory
    /\ ui = Form(<<>>, <<>>, <<>>, <<>>, 1, MinSleep, 0, StealthMode)

ProcessBatchCall ==
    /\ pc \in {"engine", "processed", "cleaned"}
    /\ img_stealth.batches < MaxBatches
    /\ \E file_paths \in BatchInputs :
          \E new_paths \in process_batch(file_paths, img_stealth.batches + 1) :
              /\ loc' = [loc EXCEPT !.active_files = file_paths]
              /\ img_stealth' = AfterBatch(img_stealth, new_paths)
              /\ clipboard' = Files(new_paths)
    /\ pc' = "processed"
    /\ UNCHANGED <<config, _is_running, clipboard_event, idx, sleep, scope, clipq, now, human,
                   cool, sig, hist, ui>>

CleanupCall ==
    /\ pc \in {"engine", "processed"}
    /\ img_stealth' = cleanup_last_batch(img_stealth)
    /\ pc' = "cleaned"
    /\ UNCHANGED <<config, _is_running, clipboard_event, idx, loc, sleep, scope, clipboard, clipq,
                   now, human, cool, sig, hist, ui>>

NextStealth == ProcessBatchCall \/ CleanupCall

SpecStealth == InitStealth /\ [][NextStealth]_vars

-----------------------------------------------------------------------------
\* Properties of the send loops (specification Spec).

\* C1, as stated: once stop() has returned, run makes no further search_contact and no
\* further focus_input_box call and starts at most the one iteration whose is_running()
\* check had passed, with at most one text paste and one file paste.
C1_NoTargetCallAfterStop ==
    /\ hist.after_stop.searches = 0
    /\ hist.after_stop.focuses = 0
    /\ hist.after_stop.iters <= 1
    /\ hist.after_stop.texts <= 1
    /\ hist.after_stop.files <= 1

\* C1, amended: once stop() has returned, run passes no further is_running() check. What
\* follows is either the rest of the target whose check at the top of the for loop had
\* passed (at most one search_contact and one focus_input_box, and then no iteration and no
\* paste), or the rest of the one iteration whose check had passed (at most one text paste
\* and one file paste, and no search and no focus).
C1_Interruptible ==
    /\ hist.after_stop.searches <= 1
    /\ hist.after_stop.focuses <= 1
    /\ hist.after_stop.iters <= 1
    /\ hist.after_stop.texts <= 1
    /\ hist.after_stop.files <= 1
    /\ hist.after_stop.searches + hist.after_stop.focuses > 0
          => hist.after_stop.iters + hist.after_stop.texts + hist.after_stop.files = 0

\* stop() returned during an iteration, which then made its text and its file paste, and run
\* has ended.
C1_Witness ==
    /\ pc = "done"
    /\ ~_is_running
    /\ hist.after_stop.texts = 1
    /\ hist.after_stop.files = 1

\* C2: every execution of run ends and stays ended, whether or not stop() was called on
\* the way; sig_finished has been emitted exactly once when run has ended and not before,
\* and run emits no signal after it.
C2_Terminates ==
    /\ <>[](pc = "done")
    /\ [](sig.finished = (IF pc = "done" THEN 1 ELSE 0))
    /\ [](pc = "done" => sig.last = "finished")
    /\ [][pc = "done" => sig' = sig]_vars

\* run has ended after a stop() during the wait for the clipboard, with sig_finished last.
C2_Witness ==
    /\ pc = "done"
    /\ ~_is_running
    /\ sig.finished = 1 /\ sig.last = "finished"
    /\ hist.after_stop.files = 1

\* The content a target sends: its own when it has any, else the global one.
ActiveMsg == IF is_custom(target) THEN target.custom_msg ELSE config.global_msg
ActiveFiles == IF is_custom(target) THEN target.custom_files ELSE config.global_files

TargetOps == SelectSeq(hist.trace, LAMBDA op : op \in {"search", "focus"})
IterOps == SelectSeq(hist.trace, LAMBDA op : op \notin {"search", "focus"})
Pastes(msg, files) ==
    (IF msg # <<>> THEN <<"text">> ELSE <<>>) \o (IF files # <<>> THEN <<"file">> ELSE <<>>)

\* The positions of run inside one iteration, from the content read to the counters.
InIteration ==
    \/ pc \in {"text", "text_paste", "text_sent", "files", "clip_wait", "file_paste", "iter_end"}
    \/ pc = "sleep" /\ sleep.ret \in {"text_sent", "files", "iter_end"}

C3_CleanRun == _is_running /\ hist.updates = 0

\* C3: in a run with no stop(), no live update and no exception, the targets are taken in
\* the order of target_list, a target is skipped only when it has no content, and a target
\* whose loop ends has had exactly count_per_person iterations, each with one text paste
\* when the active message is non-empty and one file paste when the active files are.
C3_CleanRunSendsCount ==
    /\ [](C3_CleanRun /\ pc = "scope_exit" /\ scope.leave = "normal"
            => /\ hist.cur.iters = config.count_per_person
               /\ hist.cur.texts = (IF ActiveMsg # <<>> THEN config.count_per_person ELSE 0)
               /\ hist.cur.files = (IF ActiveFiles # <<>> THEN config.count_per_person ELSE 0))
    /\ [](C3_CleanRun /\ pc = "iter_end" => IterOps = Pastes(ActiveMsg, ActiveFiles))
    /\ [][idx' # idx => idx' = idx + 1]_vars
    /\ [][C3_CleanRun /\ pc = "tgt_read" /\ pc' = "tgt_check"
            => ActiveMsg = <<>> /\ ActiveFiles = <<>>]_vars

\* The second target of a list ends its loop after MaxCount iterations of text and files.
C3_Witness ==
    /\ C3_CleanRun
    /\ pc = "scope_exit" /\ scope.leave = "normal"
    /\ idx = MaxTargets
    /\ hist.cur.iters = MaxCount /\ hist.cur.texts = MaxCount /\ hist.cur.files = MaxCount

\* C4: for the current target, search_contact (when needed) comes before focus_input_box,
\* focus_input_box is called once and before the first paste, in an iteration the text
\* paste comes before the file paste and the interval wait after the pastes, and no paste
\* comes before the focus.
C4_OperationOrder ==
    /\ hist.trace = TargetOps \o IterOps
    /\ TargetOps \in {<<>>, <<"search">>, <<"focus">>, <<"search", "focus">>}
    /\ IterOps \in {<<>>, <<"text">>, <<"file">>, <<"text", "file">>, <<"wait">>,
                    <<"text", "wait">>, <<"file", "wait">>, <<"text", "file", "wait">>}
    /\ hist.cur.focuses <= 1 /\ hist.cur.searches <= 1
    /\ (InIteration \/ IterOps # <<>> \/ hist.cur.texts + hist.cur.files > 0)
          => hist.cur.focuses = 1 /\ TargetOps # <<>> /\ TargetOps[Len(TargetOps)] = "focus"
    /\ (hist.cur.focuses = 1 /\ need_search) => TargetOps = <<"search", "focus">>
    /\ (pc = "scope_exit" /\ scope.leave = "normal") => hist.cur.focuses = 1

\* A searched and focused target is in the interval wait after its text and file paste.
C4_Witness ==
    /\ hist.trace = <<"search", "focus", "text", "file", "wait">>
    /\ pc = "sleep"

\* C5: in an iteration of a target without custom content, the message and the files are
\* the global ones as they were together at the iteration's read, so they are the current
\* ones unless an update has returned since; a target with custom content has its own in
\* every iteration; and what goes to the clipboard or to the UI thread is made from them.
C5_LiveContent ==
    InIteration =>
        /\ is_custom(target)
              => loc.active_msg = target.custom_msg /\ loc.active_files = target.custom_files
        /\ (~is_custom(target) /\ ~hist.dirty_content)
              => loc.active_msg = config.global_msg /\ loc.active_files = config.global_files
        /\ (pc = "text_paste" /\ clipboard.kind = "text")
              => clipboard.val \in humanize(loc.active_msg, loc.current_limit,
                                            loc.sent_count_for_this_person,
                                            config.enable_stealth_mode)
        /\ \A i \in 1..Len(clipq) :
              (pc \in {"clip_wait", "file_paste"} /\ clipq[i].fresh)
                 => clipq[i].files \in IF config.enable_stealth_mode
                                       THEN process_batch(loc.active_files, img_stealth.batches)
                                       ELSE { loc.active_files }

\* An iteration that started after update_runtime_content returned pastes the new message.
C5_Witness ==
    /\ hist.updates = 1 /\ ~hist.dirty_content
    /\ pc = "text_paste"
    /\ ~is_custom(target)
    /\ loc.active_msg \in NewMessages
    /\ loc.sent_count_for_this_person > 0

\* C6: the limit of an iteration is the count_per_person read at its start, so it is the
\* current one unless update_runtime_params has returned since; an iteration runs only
\* while the sent count is below that limit, and a loop that ends on the limit has sent at
\* least the count_per_person read at that moment.
C6_LiveCount ==
    /\ (InIteration \/ pc = "iter_read")
          => /\ (pc # "iter_end" /\ ~(pc = "sleep" /\ sleep.ret = "iter_end"))
                   => loc.sent_count_for_this_person < loc.current_limit
             /\ ~hist.dirty_params => loc.current_limit = config.count_per_person
    /\ (pc = "scope_exit" /\ scope.leave = "normal" /\ _is_running /\ ~hist.dirty_params)
          => loc.sent_count_for_this_person >= config.count_per_person

\* The count was changed while the target was being served, and the loop ended on the new one.
C6_Witness ==
    /\ hist.updates = 1 /\ ~hist.dirty_params
    /\ pc = "scope_exit" /\ scope.leave = "normal" /\ _is_running
    /\ config.count_per_person # loc.current_count_setting
    /\ loc.sent_count_for_this_person = config.count_per_person

\* C7, as stated: a worker that has not been stopped calls send_paste_and_enter only when a
\* _smart_sleep of at least 0.05 s has completed since its previous call.
C7_RateLimit ==
    (pc \in {"text_paste", "file_paste"} /\ _is_running) => hist.gap # "pasted"

\* C8, as stated: the worker pastes the files of a batch only when the UI thread has run
\* set_clipboard_files for that batch, or when the wait has timed out.
C8_HandOff ==
    pc = "file_paste" => hist.timed_out \/ \A i \in 1..Len(clipq) : ~clipq[i].fresh

-----------------------------------------------------------------------------
\* Properties of the window and its worker (specification SpecUI).

\* The task has exactly one target, and its name is empty or the current window's.
C9_OneCurrentWindow ==
    /\ Len(config.target_list) = 1
    /\ config.target_list[idx].name \in {<<>>, CurrentWindow}

C9_BuildsCurrentWindow ==
    (ui'.created > ui.created /\ ui.target_list = <<>> /\ strip(ui.input_single_name) = <<>>)
       => config'.target_list = << Target(CurrentWindow, <<>>, <<>>) >>

\* C9, as stated: with no list loaded and the nickname field empty _start builds the one
\* target of the current window, and for every target run leaves, search_contact has been
\* called if and only if the task is not one target with an empty or current-window name.
C9_SearchIff ==
    /\ [][C9_BuildsCurrentWindow]_vars
    /\ [][(idx >= 1 /\ idx' = idx + 1)
             => (hist.cur.searches = 1 <=> ~C9_OneCurrentWindow)]_vars

\* C9, amended: with no list loaded and the nickname field empty _start builds the one
\* target of the current window; for every target run leaves, search_contact has been
\* called (once) if and only if the target was not skipped for having no content and the
\* task is not one target with an empty or current-window name.
C9_SearchIffNotSkipped ==
    /\ [][C9_BuildsCurrentWindow]_vars
    /\ [][(idx >= 1 /\ idx' = idx + 1)
             => /\ hist.cur.searches <= 1
                /\ hist.cur.searches = 1 <=> (pc # "tgt_read" /\ ~C9_OneCurrentWindow)]_vars

\* The task built from an empty form is the current window, focused without a search.
C9_Witness ==
    /\ ui.created = 1 /\ ui.edits = 0
    /\ ui.target_list = <<>> /\ ui.input_single_name = <<>>
    /\ config.target_list = << Target(CurrentWindow, <<>>, <<>>) >>
    /\ hist.trace = <<"focus", "text">>

\* The form has something to send: in single mode a message or a file, in batch mode a
\* target with content of its own or global content.
C10_SomethingToSend ==
    IF ui.target_list = <<>>
    THEN strip(ui.txt_msg) # <<>> \/ ui.list_images # <<>>
    ELSE \E i \in 1..Len(ui.target_list) :
            \/ ui.target_list[i].custom_msg # <<>> \/ ui.target_list[i].custom_files # <<>>
            \/ strip(ui.txt_msg) # <<>> \/ ui.list_images # <<>>

\* C10: _start creates a worker only when the form has something to send; a _start that
\* creates none leaves the worker variables and self.worker as they were, the run button
\* enabled and the stop button disabled.
C10_RefusesEmptyTask ==
    /\ [][ui'.created > ui.created => C10_SomethingToSend]_vars
    /\ [][(ui'.starts > ui.starts /\ ui'.created = ui.created)
             => /\ workerVars' = workerVars
                /\ ui'.worker = ui.worker
                /\ ui'.btn_run /\ ~ui'.btn_stop]_vars

\* A second _start was refused while the worker of the first is running.
C10_Witness ==
    /\ ui.starts = 2 /\ ui.created = 1
    /\ ui.worker = "w" /\ _is_running /\ pc \in {"sleep", "text_paste"}
    /\ ~C10_SomethingToSend
    /\ ui.btn_run /\ ~ui.btn_stop


-----------------------------------------------------------------------------
\* Properties of SemanticEngine.humanize (specification SpecHumanize).

\* Deleting U+200B, U+200C, U+200D and U+2060 from a text.
DeleteInvisible(text) == SelectSeq(text, LAMBDA c : c \notin invisible_chars)

\* The text is base followed by 1 or 2 invisible characters.
LightlyObfuscated(text, base) ==
    /\ Len(text) - Len(base) \in 1..2
    /\ SubSeq(text, 1, Len(base)) = base
    /\ \A i \in (Len(base) + 1)..Len(text) : text[i] \in invisible_chars

\* The text is base between 1 to 3 invisible characters and 1 to 3 invisible characters.
DeeplyWrapped(text, base) ==
    \E before \in 1..3, after \in 1..3 :
        /\ Len(text) = before + Len(base) + after
        /\ SubSeq(text, before + 1, before + Len(base)) = base
        /\ \A i \in (1..before) \cup ((before + Len(base) + 1)..Len(text)) :
              text[i] \in invisible_chars

-----------------------------------------------------------------------------
\* Properties of the scheduled start (specification Spec).

\* run is past its countdown: it is about to connect, or has called driver.connect().
PastCountdown == pc = "connect" \/ hist.connected

\* Nothing has been done to any target: no search, focus, iteration or paste.
NothingSent == hist.cur = NoCalls /\ hist.trace = <<>> /\ idx = 0

\* C12, as stated: with target_timestamp > 0 the worker connects, searches and pastes only
\* once the clock has reached target_timestamp; sig_countdown(0) is emitted exactly once,
\* after every positive value and before connecting; a run stopped during the countdown
\* ends with no connect and no send.
C12_ZeroOnce ==
    config.target_timestamp > 0 =>
        /\ PastCountdown => now >= config.target_timestamp
        /\ PastCountdown => hist.countdown.last = 0 /\ hist.countdown.zeros = 1
        /\ hist.countdown.zeros <= 1
        /\ ~hist.countdown.rose
        /\ ~PastCountdown => NothingSent

\* C12, amended: sig_countdown(0) is emitted at least once, by every poll of the last
\* second before target_timestamp (where int(remaining) is 0) and by the poll that finds
\* the time reached; it is the last value before connecting and no larger value follows
\* a smaller one. The poll that observes a stop goes to the finally block.
C12_ScheduledStart ==
    /\ [](config.target_timestamp > 0 =>
            /\ PastCountdown => now >= config.target_timestamp
            /\ PastCountdown => hist.countdown.last = 0 /\ hist.countdown.zeros >= 1
            /\ ~hist.countdown.rose
            /\ ~PastCountdown => NothingSent)
    /\ [][config.target_timestamp > 0 /\ pc = "cd_check" /\ pc' # pc =>
             /\ ~_is_running => pc' = "finally" /\ hist' = hist /\ sig' = sig
             /\ _is_running =>
                  /\ hist'.countdown.last = 0 <=> config.target_timestamp - now < Second
                  /\ pc' = "connect" <=> config.target_timestamp - now <= 0
                  /\ pc' \in {"connect", "cd_sleep"}]_vars
    /\ [][config.target_timestamp > 0 /\ ~_is_running /\ ~PastCountdown => ~PastCountdown']_vars

\* A worker scheduled one second ahead emitted 0 more than once, connected at the target
\* time and is pasting its text.
C12_Witness ==
    /\ config.target_timestamp = StartClock + (Second * MaxDelay)
    /\ pc = "text_paste" /\ hist.connected
    /\ hist.countdown.zeros = 2 /\ hist.countdown.last = 0
    /\ now >= config.target_timestamp

-----------------------------------------------------------------------------
\* Properties of the replacement of a worker by _start (specification SpecUI).

\* The AutomationWorker threads that are executing run: the one of self.worker and the
\* one of the worker it replaced.
RunningThreads ==
    (IF ThreadAlive THEN 1 ELSE 0) + (IF ui.old.thread = "running" THEN 1 ELSE 0)

\* _start has created a worker in this step while self.worker held one.
Replaces == ui.worker = "w" /\ ui'.created = ui.created + 1

\* C13: at most one AutomationWorker thread is executing run at any time, and when _start
\* replaces a worker the old one has been stopped and has exited or been terminated when
\* the new one is started.
C13_SingleWorker ==
    /\ [](RunningThreads <= 1)
    /\ [][Replaces => /\ ~ui'.old._is_running
                      /\ ui'.old.thread \in {"finished", "terminated"}
                      /\ ~ThreadAlive => ui'.old.thread = "finished"
                      /\ pc' = "start" /\ _is_running']_vars

\* A worker that did not exit within the second was terminated, and its successor is pasting.
C13_Witness ==
    /\ ui.created = 2 /\ ui.old.thread = "terminated" /\ ~ui.old._is_running
    /\ pc = "text_paste" /\ _is_running
    /\ RunningThreads = 1

\* C14, as stated: once _start has replaced a worker, no signal of the old worker invokes
\* a UI slot; in particular set_clipboard_files never runs for an emission of
\* sig_set_clipboard_files made by a worker that is no longer self.worker.
C14_OldSignalsCutOff ==
    [][clipq # <<>> /\ clipq' = Tail(clipq) => Head(clipq).worker = ui.created]_vars

-----------------------------------------------------------------------------
\* Properties of a target that fails (specification Spec).

\* C15: a search_contact that returns False skips the target, with ops_done advanced by
\* the current count and a progress signal; an exception raised while a target is handled
\* is logged through sig_log; in both cases the loop goes on to the next target, which is
\* processed if the worker is running, and no sig_error is emitted and run does not end.
C15_FailureSkipsTarget ==
    /\ [][pc = "search" /\ pc' = "scope_exit" =>
             /\ loc'.ops_done = loc.ops_done + loc.current_count_setting
             /\ scope'.leave = "continue"
             /\ hist'.failed = hist.failed + 1
             /\ sig'.error = sig.error /\ sig'.finished = sig.finished]_vars
    /\ [][pc = "scope_exit" /\ scope.leave = "continue" /\ pc' # pc =>
             /\ sig'.last = "progress"
             /\ pc' = "tgt_check" /\ idx' = idx + 1
             /\ sig'.error = sig.error /\ sig'.finished = sig.finished]_vars
    /\ [][pc = "scope_exit" /\ scope.leave = "raise" /\ pc' # pc => pc' = "inner_except"]_vars
    /\ [][pc = "inner_except" /\ pc' # pc =>
             /\ sig'.last = "log"
             /\ pc' = "sleep" /\ sleep'.ret = "tgt_check" /\ idx' = idx + 1
             /\ sig'.error = sig.error /\ sig'.finished = sig.finished]_vars
    /\ [][pc = "tgt_check" /\ pc' # pc /\ _is_running /\ idx <= total_targets =>
             pc' = "tgt_read"]_vars
    /\ [](hist.failed > 0 => sig.error = 0)
    /\ [](hist.failed > 0 /\ sig.finished > 0 => idx > total_targets \/ ~_is_running)

\* The first target of two failed and the second one is being sent its text.
C15_Witness ==
    /\ hist.failed = 1 /\ idx = 2 /\ total_targets = 2
    /\ pc = "text_paste" /\ _is_running
    /\ sig.error = 0 /\ sig.finished = 0

\* The target is being abandoned: the with block is left by continue or by an exception.
Abandoning == (pc = "scope_exit" /\ scope.leave # "normal") \/ pc = "inner_except"

\* C16, as stated: a contact search that fails is retried for the same target before the
\* target is abandoned, so a target abandoned for its search has been searched twice or more.
C16_SearchRetried ==
    pc = "scope_exit" /\ scope.leave = "continue" => hist.cur.searches >= 2

\* C16, amended: there is no retry. search_contact is called at most once for a target;
\* a search that fails and a send that raises leave the with block in that same step, and
\* from there to the next target no driver call is made.
C16_NoRetry ==
    /\ [](hist.cur.searches <= 1)
    /\ [](pc = "scope_exit" /\ scope.leave = "continue" =>
             hist.cur = [NoCalls EXCEPT !.searches = 1])
    /\ [][hist'.failed = hist.failed + 1 /\ pc \in {"text_paste", "file_paste"} =>
             /\ pc' = "scope_exit" /\ scope'.leave = "raise"
             /\ hist'.cur = hist.cur]_vars
    /\ [][Abandoning => hist'.cur \in {hist.cur, NoCalls} /\ idx' \in {idx, idx + 1}]_vars
    /\ [][Abandoning /\ idx' = idx + 1 => hist'.cur = NoCalls]_vars

\* A target was searched once, search_contact returned False, and the target is skipped.
C16_Witness ==
    /\ pc = "scope_exit" /\ scope.leave = "continue"
    /\ hist.cur.searches = 1 /\ hist.failed = 1
    /\ _is_running

-----------------------------------------------------------------------------
\* Properties of ClipboardScope (specification Spec).

\* The clipboard text before the first target is processed.
OriginalText == Text(<<"o">>)

\* C17, as stated: on every exit path of the with block the text captured on entry is
\* written back, so that after the run the clipboard holds the text it held before the
\* first target was processed.
C17_ClipboardRestored ==
    pc = "done" /\ clipq = <<>> => clipboard = OriginalText

-----------------------------------------------------------------------------
\* Properties of ImageStealthEngine (specification SpecStealth).

\* A path the engine has created in its temp directory during batch n.
CreatedIn(path, n) == path.dir = "temp" /\ path.gen \div 10 = n

\* C18: the engine never removes or writes a user's file. Every path of
\* current_batch_files was created by the engine in its temp directory during the latest
\* batch; every path a call removes is a path of current_batch_files, and every path a
\* call creates is a new path of the temp directory; process_batch returns a list as long
\* as its input and in its order, each entry being the original path (always for a video)
\* or a temp copy of that original created by this call.
C18_OriginalsUntouched ==
    /\ [](UserFiles \subseteq img_stealth.disk)
    /\ [](\A p \in Range(img_stealth.current_batch_files) :
             CreatedIn(p, img_stealth.batches) /\ p \in img_stealth.disk)
    /\ [][/\ img_stealth.disk \ img_stealth'.disk \subseteq Range(img_stealth.current_batch_files)
          /\ \A p \in img_stealth'.disk \ img_stealth.disk :
                CreatedIn(p, img_stealth'.batches) /\ img_stealth'.batches = img_stealth.batches + 1]_vars
    /\ [](pc = "processed" =>
             /\ clipboard.kind = "files"
             /\ Len(clipboard.val) = Len(loc.active_files)
             /\ \A i \in 1..Len(loc.active_files) :
                   \/ clipboard.val[i] = loc.active_files[i]
                   \/ /\ loc.active_files[i].ext \notin video_exts
                      /\ CreatedIn(clipboard.val[i], img_stealth.batches)
                      /\ clipboard.val[i].name = loc.active_files[i].name
                      /\ clipboard.val[i].ext = loc.active_files[i].ext
                      /\ clipboard.val[i] \in Range(img_stealth.current_batch_files))

\* A second batch of a picture and a video: the copy of the first batch is gone, the
\* picture has a new copy, the video goes as it is, and both originals are on disk.
C18_Witness ==
    /\ pc = "processed" /\ img_stealth.batches = 2
    /\ loc.active_files = <<Picture, Video>>
    /\ clipboard.val[1].dir = "temp" /\ clipboard.val[2] = Video
    /\ img_stealth.current_batch_files = <<clipboard.val[1]>>
    /\ img_stealth.disk = UserFiles \cup {clipboard.val[1]}
====
